---- MODULE Spec2Model ----
(***************************************************************************)
(* A model of nix-ninja: the scheduler of crates/nix-ninja/src/build.rs    *)
(* (BuildStates, Scheduler, build) and the task runner of                  *)
(* crates/nix-ninja/src/task.rs (Runner, build_task_derivation).           *)
(*                                                                         *)
(* Builds are 1..NumBuilds.  File ids are numbers: file b (b a build) is   *)
(* the primary output of build b, Aux is a further file of the Ninja file  *)
(* (a source, or a second output of one build) and Hdr is a header that    *)
(* is not named in the Ninja file.  A path is a sequence of components;    *)
(* the component Dot is "." and every other component is a file id.        *)
(***************************************************************************)
EXTENDS Integers, Sequences, FiniteSets, TLC

\* ---------------------------------------------------------------- bounds

NumBuilds == 3
MaxEdges == 3
MaxBfsFiles == 3
MaxIncludes == 3
MaxInitial == 2
MaxSource == 3
MaxTokens == 6

\* ------------------------------------------------------------- universes

Builds == 1..NumBuilds
Aux == NumBuilds + 1
Hdr == NumBuilds + 2
GraphFiles == 1..Aux
Files == 1..Hdr
Dot == 0
None == [none |-> TRUE]

RECURSIVE SortedSeq(_)
\* The members of a set of numbers in increasing order.
SortedSeq(S) ==
    IF S = {} THEN <<>>
    ELSE LET m == CHOOSE x \in S : \A y \in S : x <= y
         IN <<m>> \o SortedSeq(S \ {m})

Range(s) == {s[i] : i \in 1..Len(s)}

RECURSIVE Perms(_)
\* Every order in which the members of a set can be visited.
Perms(S) ==
    IF S = {} THEN {<<>>}
    ELSE UNION {{<<x>> \o p : p \in Perms(S \ {x})} : x \in S}

\* ------------------------------------------------------------------ state

VARIABLES
    ninja,            \* the statements that give the run its inputs
    graph,            \* the loaded Ninja graph: graph[b] is Build b
    target,           \* the FileId of the requested target
    build_dir,        \* the regular files found under config.build_dir
    cfg_extra_inputs, \* config.extra_inputs: pairs <<target file, path>>
    pc,               \* position of build(): the next call it makes
    states,           \* BuildStates.states
    total_pending,    \* BuildStates.total_pending
    ready,            \* BuildStates.ready
    want_err,         \* the Result of Scheduler::want_file (a cycle, or <<>>)
    derived_files,    \* Runner.derived_files
    build_dir_inputs, \* Runner.build_dir_inputs
    extra_inputs,     \* Runner.extra_inputs
    tasks,            \* the Task snapshot moved into each worker thread
    workers,          \* the worker threads that have not sent their result
    chan,             \* the mpsc channel of BuildResults
    submitted,        \* the derivation each worker handed to derivation add
    json,             \* the JSON text derivation add made of it
    received,         \* builds whose result wait() has taken and registered
    racing,           \* builds that were Running when wait() last returned
    failed,           \* builds whose result wait() has taken with an error
    starts,           \* how often each build was handed to Runner::start
    pushes,           \* how often each build was pushed on the ready queue
    result,           \* what build() returned
    fs,               \* the host's files: what each one includes, in order
    arg,              \* the argument a function is called with by itself
    out               \* what that call returned

vars == <<ninja, graph, target, build_dir, cfg_extra_inputs, pc, states, total_pending, ready, want_err,
          derived_files, build_dir_inputs, extra_inputs, tasks, workers, chan,
          submitted, json, received, racing, failed, starts, pushes, result,
          fs, arg, out>>


\* ------------------------------------------------------------- the graph

\* n2 File.input: the build that has fid among its outs, 0 when there is none.
Input(fid) ==
    IF \E b \in Builds : fid \in Range(graph[b].outs)
    THEN CHOOSE b \in Builds : fid \in Range(graph[b].outs)
    ELSE 0

\* n2 File.dependents: one entry for every build that lists fid as an input
\* (ordering or validation), in build order.
Dependents(fid) ==
    SelectSeq(SortedSeq(Builds),
              LAMBDA b : fid \in Range(graph[b].ordering_ins)
                         \/ fid \in Range(graph[b].validation_ins))

\* The files the loader has interned: those named by some build.
LoadedFiles ==
    UNION {Range(graph[b].outs) \cup Range(graph[b].ordering_ins)
           \cup Range(graph[b].validation_ins) : b \in Builds}

\* --------------------------------------------------------- BuildStates

BuildState == {"Unneeded", "Want", "Ready", "Running", "Done"}

\* BuildStates::new
NewBuildStates ==
    [states |-> [b \in Builds |-> "Unneeded"],
     total_pending |-> 0,
     ready |-> <<>>,
     pushes |-> [b \in Builds |-> 0]]

\* set as it would be if it counted a build as pending whenever it is set to
\* a state other than Done, and not only when it leaves Unneeded.
set_counting_each(bs, bid, state) ==
    [states |-> [bs.states EXCEPT ![bid] = state],
     total_pending |-> IF state = "Done" THEN bs.total_pending - 1
                       ELSE bs.total_pending + 1,
     ready |-> IF state = "Ready" THEN Append(bs.ready, bid) ELSE bs.ready,
     pushes |-> IF state = "Ready"
                THEN [bs.pushes EXCEPT ![bid] = @ + 1]
                ELSE bs.pushes]

\* BuildStates::set
set(bs, bid, state) ==
    LET prev == bs.states[bid]
        tp1 == IF prev = "Unneeded" THEN bs.total_pending + 1
               ELSE bs.total_pending
    IN [states |-> [bs.states EXCEPT ![bid] = state],
        total_pending |-> IF state = "Done" THEN tp1 - 1 ELSE tp1,
        ready |-> IF state = "Ready" THEN Append(bs.ready, bid) ELSE bs.ready,
        pushes |-> IF state = "Ready"
                   THEN [bs.pushes EXCEPT ![bid] = @ + 1]
                   ELSE bs.pushes]

\* unfinished as it would be if it did not tell an empty count from a
\* positive one.
unfinished_always(bs) == bs.total_pending >= 0

\* BuildStates::unfinished
unfinished(bs) == bs.total_pending > 0

RECURSIVE want_file(_, _, _), want_build(_, _, _), want_ins(_, _, _, _, _)

\* want_file as it would be if it reported the whole stack instead of the
\* part from the first occurrence of the file.
want_file_whole_stack(bs, stack, fid) ==
    IF \E i \in 1..Len(stack) : stack[i] = fid
    THEN [bs |-> bs, err |-> stack \o <<fid>>, ready |-> FALSE]
    ELSE IF Input(fid) = 0
    THEN [bs |-> bs, err |-> <<>>, ready |-> TRUE]
    ELSE LET r == want_build(bs, Append(stack, fid), Input(fid))
         IN [bs |-> r.bs, err |-> r.err,
             ready |-> r.err = <<>> /\ r.state = "Done"]

\* BuildStates::want_file.  The result carries the BuildStates as the call
\* left them (also when it fails), the cycle it reports (<<>> for Ok) and the
\* bool of Ok.
want_file(bs, stack, fid) ==
    LET hits == {i \in 1..Len(stack) : stack[i] = fid}
    IN IF hits # {}
       THEN LET cycle == CHOOSE i \in hits : \A j \in hits : i <= j
            IN [bs |-> bs,
                err |-> SubSeq(stack, cycle, Len(stack)) \o <<fid>>,
                ready |-> FALSE]
       ELSE IF Input(fid) = 0
       THEN [bs |-> bs, err |-> <<>>, ready |-> TRUE]
       ELSE LET r == want_build(bs, Append(stack, fid), Input(fid))
            IN [bs |-> r.bs, err |-> r.err,
                ready |-> r.err = <<>> /\ r.state = "Done"]

\* The loops of want_build over a list of inputs, from index i on; a failing
\* want_file ends the loop (the ? operator).
want_ins(bs, stack, ins, i, rdy) ==
    IF i > Len(ins) THEN [bs |-> bs, err |-> <<>>, ready |-> rdy]
    ELSE LET r == want_file(bs, stack, ins[i])
         IN IF r.err # <<>> THEN [bs |-> r.bs, err |-> r.err, ready |-> FALSE]
            ELSE want_ins(r.bs, stack, ins, i + 1, rdy /\ r.ready)

\* want_build as it would be if it did not walk the validation inputs.
want_build_ordering_only(bs, stack, bid) ==
    IF bs.states[bid] # "Unneeded"
    THEN [bs |-> bs, err |-> <<>>, state |-> bs.states[bid]]
    ELSE LET r1 == want_ins(bs, stack, graph[bid].ordering_ins, 1, TRUE)
         IN IF r1.err # <<>>
            THEN [bs |-> r1.bs, err |-> r1.err, state |-> "Unneeded"]
            ELSE LET state == IF r1.ready THEN "Ready" ELSE "Want"
                 IN [bs |-> set(r1.bs, bid, state), err |-> <<>>,
                     state |-> state]

\* BuildStates::want_build
want_build(bs, stack, bid) ==
    IF bs.states[bid] # "Unneeded"
    THEN [bs |-> bs, err |-> <<>>, state |-> bs.states[bid]]
    ELSE LET r1 == want_ins(bs, stack, graph[bid].ordering_ins, 1, TRUE)
         IN IF r1.err # <<>>
            THEN [bs |-> r1.bs, err |-> r1.err, state |-> "Unneeded"]
            ELSE LET state == IF r1.ready THEN "Ready" ELSE "Want"
                     r2 == want_ins(set(r1.bs, bid, state), stack,
                                    graph[bid].validation_ins, 1, TRUE)
                 IN [bs |-> r2.bs, err |-> r2.err, state |-> state]

\* ----------------------------------------------------------- Scheduler

\* recheck_ready as it would be if it answered after the first generated
\* input instead of looking at all of them.
recheck_ready_first(bs, bid) ==
    LET gen == SelectSeq(graph[bid].ordering_ins, LAMBDA f : Input(f) # 0)
    IN gen = <<>> \/ bs.states[Input(gen[1])] = "Done"

\* Scheduler::recheck_ready
recheck_ready(bs, bid) ==
    \A i \in 1..Len(graph[bid].ordering_ins) :
        LET in == Input(graph[bid].ordering_ins[i])
        IN in = 0 \/ bs.states[in] = "Done"

\* The collection if only the primary output of the build were looked at.
WantDependents_primary(bs, bid) ==
    SelectSeq(Dependents(graph[bid].outs[1]), LAMBDA d : bs.states[d] = "Want")

\* The dependents ready_dependents collects: for each out of the build, in
\* order, the dependents of that file that are in state Want.
WantDependents(bs, bid) ==
    LET outs == graph[bid].outs
        F[i \in 0..Len(outs)] ==
            IF i = 0 THEN <<>>
            ELSE F[i - 1] \o SelectSeq(Dependents(outs[i]),
                                       LAMBDA d : bs.states[d] = "Want")
    IN F[Len(outs)]

\* The visiting order if the dependents were kept in a Vec: a dependent on two
\* outputs of the build is visited twice.
DependentOrders_vec(collected) == {collected}

\* The orders in which the loop of ready_dependents can visit the collected
\* dependents: they are kept in a HashSet, so each once, in any order.
DependentOrders(collected) == Perms(Range(collected))

RECURSIVE ready_loop(_, _, _)
\* The second loop of ready_dependents over a visiting order.
ready_loop(bs, order, i) ==
    IF i > Len(order) THEN bs
    ELSE IF recheck_ready(bs, order[i])
         THEN ready_loop(set(bs, order[i], "Ready"), order, i + 1)
         ELSE ready_loop(bs, order, i + 1)

\* Scheduler::ready_dependents, for every visiting order of the HashSet.
ready_dependents(bs, bid) ==
    LET done == set(bs, bid, "Done")
    IN {ready_loop(done, order, 1) :
            order \in DependentOrders(WantDependents(done, bid))}

\* ------------------------------------------------- paths and derived files

\* n2 canon::canonicalize_path, on the paths of this model: the "."
\* components are dropped.
canonicalize_path(path) == SelectSeq(path, LAMBDA c : c # Dot)

\* GraphFiles::lookup / id_from_canonical: the FileId of a canonical path.
\* A path that still has a "." in it is no key of the file table.
FidOf(path) == IF Len(path) = 1 /\ path[1] # Dot THEN path[1] ELSE 0

\* std::fs::canonicalize: the file on disk a path leads to.
fs_canonicalize(path) == FidOf(canonicalize_path(path))

\* The characters '/' and '-' of a file name, as their codes.
Slash == 47
Dash == 45

\* normalize_output: output.replace('/', "-") on a name given as the sequence
\* of its characters.  A file of a run of build() is named by one character,
\* its FileId.
normalize_output(output) ==
    [i \in DOMAIN output |-> IF output[i] = Slash THEN Dash ELSE output[i]]

\* new_opaque_file: the store object `nix store add` returns for the file on
\* disk is named after that file.  Every path of the model leads to a file
\* that exists, so the calls of the scheduler thread to fs::canonicalize and
\* to the store succeed; a failing host is modelled in the worker thread.
new_opaque_file(path) ==
    [path |-> [kind |-> "Opaque", store |-> fs_canonicalize(path)],
     source |-> path]

\* new_built_file as it would be if it named the derivation after the output
\* file instead of using the path derivation add returned.
new_built_file_by_name(drv_path, name) ==
    [path |-> [kind |-> "Built", drv |-> name,
               output |-> normalize_output(<<name>>)[1]],
     source |-> <<name>>]

\* new_built_file
new_built_file(drv_path, name) ==
    [path |-> [kind |-> "Built", drv |-> drv_path,
               output |-> normalize_output(<<name>>)[1]],
     source |-> <<name>>]

\* SingleDerivedPath::to_input: the store path, or the placeholder of the
\* derivation output.
to_input(path) ==
    IF path.kind = "Opaque" THEN <<"store", path.store>>
    ELSE <<"placeholder", path.drv, path.output>>

\* DerivedFile::to_encoded: "<input>:<source>"
to_encoded(df) == [input |-> to_input(df.path), source |-> df.source]

\* The derived Ord of SingleDerivedPath: Opaque before Built, then by fields.
PathLess(p, q) ==
    IF p.kind # q.kind THEN p.kind = "Opaque"
    ELSE IF p.kind = "Opaque" THEN p.store < q.store
    ELSE p.drv < q.drv \/ (p.drv = q.drv /\ p.output < q.output)

RECURSIVE SeqLess(_, _)
\* PathBuf ordering: component by component.
SeqLess(a, b) ==
    IF b = <<>> THEN FALSE
    ELSE IF a = <<>> THEN TRUE
    ELSE IF a[1] # b[1] THEN a[1] < b[1]
    ELSE SeqLess(Tail(a), Tail(b))

\* The derived Ord of DerivedFile: by path, then by source.
DerivedFileLess(x, y) ==
    PathLess(x.path, y.path) \/ (x.path = y.path /\ SeqLess(x.source, y.source))

RECURSIVE SortDerivedFiles(_)
\* Vec::sort of a collection of distinct DerivedFiles.
SortDerivedFiles(S) ==
    IF S = {} THEN <<>>
    ELSE LET m == CHOOSE x \in S : \A y \in S \ {x} : DerivedFileLess(x, y)
         IN <<m>> \o SortDerivedFiles(S \ {m})

\* HashMap<PathBuf, DerivedFile>::insert on input_set: the entry with the
\* same source is replaced.
InsertInput(input_set, df) ==
    {x \in input_set : x.source # df.source} \cup {df}

\* --------------------------------------------------------------- Runner

\* add_derived_file as it would be with an unconditional insert.
add_derived_file_overwriting(reg, derived_file, path) ==
    [reg EXCEPT ![FidOf(canonicalize_path(path))] = derived_file]

\* Runner::add_derived_file: the registry after the call.
add_derived_file(reg, derived_file, path) ==
    LET fid == FidOf(canonicalize_path(path))
    IN IF reg[fid] = None THEN [reg EXCEPT ![fid] = derived_file] ELSE reg

RECURSIVE add_derived_files(_, _)

\* The loop of Runner::wait if it registered the outputs of the derivation
\* only, and not the inputs the worker discovered.
add_derived_files_built_only(reg, dfs) ==
    IF dfs = <<>> THEN reg
    ELSE add_derived_files(
             IF Head(dfs).path.kind = "Built"
             THEN add_derived_file(reg, Head(dfs), Head(dfs).source)
             ELSE reg,
             Tail(dfs))

\* The loop of Runner::wait over result.derived_files.
add_derived_files(reg, dfs) ==
    IF dfs = <<>> THEN reg
    ELSE add_derived_files(add_derived_file(reg, Head(dfs), Head(dfs).source),
                           Tail(dfs))

\* The files of the file table: the loaded ones and those add_derived_file
\* interned since.
KnownFiles(reg) == LoadedFiles \cup {f \in Files : reg[f] # None}

RECURSIVE task_ordering_ins(_, _, _, _)
\* The first loop of Runner::new_task, over build.ordering_ins from index i:
\* an input the registry does not know is added to the store and registered.
\* No file of the model lies under the store directory.
task_ordering_ins(reg, input_set, ins, i) ==
    IF i > Len(ins) THEN [reg |-> reg, input_set |-> input_set]
    ELSE IF reg[ins[i]] # None
         THEN task_ordering_ins(reg, InsertInput(input_set, reg[ins[i]]),
                                ins, i + 1)
         ELSE LET input == new_opaque_file(<<ins[i]>>)
              IN task_ordering_ins(add_derived_file(reg, input, <<ins[i]>>),
                                   InsertInput(input_set, input), ins, i + 1)

RECURSIVE task_cmdline_args(_, _, _, _, _)
\* The loop of Runner::new_task over the words of the command line.
task_cmdline_args(reg, bdi, input_set, args, i) ==
    IF i > Len(args) THEN input_set
    ELSE LET fid == FidOf(args[i])
         IN IF fid \notin KnownFiles(reg)
            THEN task_cmdline_args(reg, bdi, input_set, args, i + 1)
            ELSE IF reg[fid] # None
            THEN task_cmdline_args(reg, bdi, InsertInput(input_set, reg[fid]),
                                   args, i + 1)
            ELSE IF bdi[fid] # None
            THEN task_cmdline_args(reg, bdi, InsertInput(input_set, bdi[fid]),
                                   args, i + 1)
            ELSE task_cmdline_args(reg, bdi, input_set, args, i + 1)

RECURSIVE InsertAll(_, _)
\* input_set.insert for every member of a collection with distinct sources.
InsertAll(input_set, dfs) ==
    IF dfs = {} THEN input_set
    ELSE LET df == CHOOSE x \in dfs : TRUE
         IN InsertAll(InsertInput(input_set, df), dfs \ {df})

RECURSIVE InsertSeq(_, _)
\* input_set.insert for every member of a Vec, in order.
InsertSeq(input_set, dfs) ==
    IF dfs = <<>> THEN input_set
    ELSE InsertSeq(InsertInput(input_set, Head(dfs)), Tail(dfs))

\* Runner::new_task: the registry after the call and the Task.
new_task(reg, bdi, extra, bid) ==
    LET build == graph[bid]
        s1 == task_ordering_ins(reg, {}, build.ordering_ins, 1)
        s2 == IF build.cmdline = None THEN s1.input_set
              ELSE task_cmdline_args(s1.reg, bdi, s1.input_set,
                                     build.cmdline.words, 1)
        s3 == InsertAll(s2, {bdi[f] : f \in {g \in Files : bdi[g] # None}})
        s4 == InsertSeq(s3, extra[bid])
    IN [reg |-> s1.reg,
        task |-> [name |-> normalize_output(<<build.outs[1]>>)[1],
                  cmdline |-> build.cmdline,
                  deps |-> build.deps,
                  outs |-> build.outs,
                  inputs |-> SortDerivedFiles(s4)]]

\* ----------------------------------------------------- include scanner

\* The file system of the runs of build(): the file Aux includes the header
\* Hdr, no other file includes anything.
HostFs == [f \in Files |-> IF f = Aux THEN <<(<<Hdr>>)>> ELSE <<>>]

\* cparse::all_sources_and_includes for one source: the includes the scanner
\* resolves in the file a path leads to.
Includes(path) ==
    IF fs_canonicalize(path) \in DOMAIN fs THEN fs[fs_canonicalize(path)]
    ELSE <<>>

\* visited.insert / queue.push_back / result.push of bfs_parse_includes.
Visit(st, file) ==
    IF file \in st.visited THEN st
    ELSE [visited |-> st.visited \cup {file},
          queue |-> Append(st.queue, file),
          result |-> Append(st.result, file)]

RECURSIVE VisitAll(_, _)
VisitAll(st, files) ==
    IF files = <<>> THEN st ELSE VisitAll(Visit(st, Head(files)), Tail(files))

RECURSIVE BatchIncludes(_)
\* The includes of the sources of a batch, source by source.
BatchIncludes(batch) ==
    IF batch = <<>> THEN <<>>
    ELSE Includes(Head(batch)) \o BatchIncludes(Tail(batch))

RECURSIVE bfs_loop(_)
\* The while loop of bfs_parse_includes.
bfs_loop(st) ==
    IF st.queue = <<>> THEN st.result
    ELSE bfs_loop(VisitAll([st EXCEPT !.queue = <<>>],
                           BatchIncludes(st.queue)))

\* bfs_parse_includes
bfs_parse_includes(files) ==
    bfs_loop(VisitAll([visited |-> {}, queue |-> <<>>, result |-> <<>>],
                      files))

\* ------------------------------------------------ build_task_derivation

\* The sources of the Opaque inputs: file_set of build_task_derivation.
FileSet(task) ==
    {task.inputs[i].source :
        i \in {j \in 1..Len(task.inputs) : task.inputs[j].path.kind = "Opaque"}}

RECURSIVE discover(_, _)
\* The loop over c_includes: the headers that are not in file_set become
\* Opaque inputs.  No include of the model lies under the store directory.
discover(file_set, c_includes) ==
    IF c_includes = <<>> THEN <<>>
    ELSE LET path == canonicalize_path(Head(c_includes))
         IN IF path \in file_set THEN discover(file_set, Tail(c_includes))
            ELSE <<new_opaque_file(path)>>
                 \o discover(file_set, Tail(c_includes))

\* discovered_inputs, when the HashSet file_set is iterated in `order`.
discovered_inputs(task, order) ==
    IF task.deps = "gcc"
    THEN discover(FileSet(task), bfs_parse_includes(order))
    ELSE <<>>

\* NixTool::derivation_add: the store names the derivation after its name.
derivation_add(drv) == drv.name

\* The derivation build_task_derivation assembles, when file_set is iterated
\* in `order`: its name, inputDrvs, inputSrcs and the entries of
\* NIX_NINJA_INPUTS.  The tool store paths every derivation has are left out.
task_derivation(task, order) ==
    LET all == task.inputs \o discovered_inputs(task, order)
        idx == 1..Len(all)
    IN [name |-> task.name,
        inputDrvs |-> {all[i].path.drv :
                          i \in {j \in idx : all[j].path.kind = "Built"}},
        inputSrcs |-> {all[i].path.store :
                          i \in {j \in idx : all[j].path.kind = "Opaque"}},
        NIX_NINJA_INPUTS |-> [i \in idx |-> to_encoded(all[i])]]

\* Derivation::to_json, as NixTool::derivation_add calls it: the fields of
\* the derivation in the order of the struct, the HashSet input_srcs and the
\* keys of the HashMap input_drvs written in the order their iterators give.
\* The env entries other than NIX_NINJA_INPUTS are the same for every order
\* and are left out.
to_json(drv, srcs, drvs) ==
    <<"name", drv.name,
      "env", <<"NIX_NINJA_INPUTS", drv.NIX_NINJA_INPUTS>>,
      "inputDrvs", drvs,
      "inputSrcs", srcs>>

\* The Ok value of build_task_derivation: the discovered inputs, then one
\* Built file per output.
task_result(task, order) ==
    LET drv_path == derivation_add(task_derivation(task, order))
    IN discovered_inputs(task, order)
       \o [i \in 1..Len(task.outs) |-> new_built_file(drv_path, task.outs[i])]

\* ----------------------------------------------------- the Ninja files

\* A run is given by a set of statements.  What the Ninja file says about
\* The files a command can name: the primary outputs and the header.
CmdFiles == Builds \cup {Hdr}

\* build b: f is an ordering input ("ord"), f is a validation input ("val"),
\* Aux is a second output ("out"), the command names the file f ("cmd"), the
\* rule has deps = gcc ("gcc"), the edge is phony and has no command
\* ("phony").  What the host does: a call the worker of build b makes to it
\* fails ("fail").  What the command line asks for: Aux instead of the file 1
\* ("target").  What the build directory holds: the file f ("dir").  What
\* --extra-inputs gives the target: the path f ("extra"), the path ./f
\* ("dotextra").  A command is kept as those of its words that are spelled
\* like a path.
Statements ==
    {<<b, f, "ord">> : b \in Builds, f \in GraphFiles}
    \cup {<<b, f, "val">> : b \in Builds, f \in Builds}
    \cup {<<b, Aux, "out">> : b \in Builds}
    \cup {<<b, f, "cmd">> : b \in Builds, f \in CmdFiles}
    \cup {<<b, 0, "gcc">> : b \in Builds}
    \cup {<<b, 0, "phony">> : b \in Builds}
    \cup {<<b, 0, "fail">> : b \in Builds}
    \cup {<<1, Aux, "target">>}
    \cup {<<1, f, "dir">> : f \in {1, Aux, Hdr}}
    \cup {<<1, Hdr, "extra">>, <<1, Aux, "dotextra">>, <<1, Hdr, "dotextra">>}

\* The loader rejects a file that is an output of two builds.  The target
\* Aux is asked for when it is the second output of build 1.
Loadable(E) ==
    /\ Cardinality({e \in E : e[3] = "out"}) <= 1
    /\ <<1, Aux, "target">> \in E => <<1, Aux, "out">> \in E

\* The graph the loader builds from a set of statements.  Build b has the
\* primary output b.
GraphOf(E) ==
    [b \in Builds |->
        [ordering_ins |-> SortedSeq({f \in GraphFiles : <<b, f, "ord">> \in E}),
         validation_ins |-> SortedSeq({f \in Builds : <<b, f, "val">> \in E}),
         outs |-> IF <<b, Aux, "out">> \in E THEN <<b, Aux>> ELSE <<b>>,
         cmdline |-> IF <<b, 0, "phony">> \in E THEN None
                     ELSE [words |->
                              LET named == SortedSeq({f \in CmdFiles :
                                                        <<b, f, "cmd">> \in E})
                              IN [i \in 1..Len(named) |-> <<named[i]>>]],
         deps |-> IF <<b, 0, "gcc">> \in E THEN "gcc" ELSE "none"]]

\* The build a set of statements makes the producer of f, 0 for none.
Producer(E, f) ==
    IF f \in Builds THEN f
    ELSE IF \E b \in Builds : <<b, f, "out">> \in E
    THEN CHOOSE b \in Builds : <<b, f, "out">> \in E
    ELSE 0

RECURSIVE Needed(_, _)
\* The builds reached from the builds S through inputs and validations.
Needed(E, S) ==
    LET N == S \cup ({Producer(E, e[2]) :
                        e \in {x \in E : x[1] \in S
                                         /\ x[3] \in {"ord", "val"}}} \ {0})
    IN IF N = S THEN S ELSE Needed(E, N)

\* config.extra_inputs of a set of statements: pairs of the target file and
\* the path, in the order of the command line.
ExtraInputsOf(E) ==
    LET X == {e \in E : e[3] \in {"extra", "dotextra"}}
        key(e) == 2 * e[2] + (IF e[3] = "extra" THEN 0 ELSE 1)
        keys == SortedSeq({key(e) : e \in X})
    IN [i \in 1..Len(keys) |->
           LET e == CHOOSE x \in X : key(x) = keys[i]
           IN <<e[1], IF e[3] = "extra" THEN <<e[2]>> ELSE <<Dot, e[2]>> >>]

\* -------------------------------------------------------------- actions

RunInit ==
    /\ ninja = {}
    /\ graph = GraphOf({})
    /\ target = 1
    /\ build_dir = {}
    /\ cfg_extra_inputs = <<>>
    /\ pc = "load"
    /\ states = NewBuildStates.states
    /\ total_pending = NewBuildStates.total_pending
    /\ ready = NewBuildStates.ready
    /\ pushes = NewBuildStates.pushes
    /\ want_err = <<>>
    /\ derived_files = [f \in Files |-> None]
    /\ build_dir_inputs = [f \in Files |-> None]
    /\ extra_inputs = [b \in Builds |-> <<>>]
    /\ tasks = [b \in Builds |-> None]
    /\ workers = {}
    /\ chan = <<>>
    /\ submitted = [b \in Builds |-> None]
    /\ json = [b \in Builds |-> None]
    /\ received = {}
    /\ racing = {}
    /\ failed = {}
    /\ starts = [b \in Builds |-> 0]
    /\ result = None

\* The state in which build() is called.
Init ==
    /\ RunInit
    /\ fs = HostFs
    /\ arg = <<>>
    /\ out = None

HostVars == <<fs, arg, out>>
GraphVars == <<ninja, graph, target, build_dir, cfg_extra_inputs>>
SchedVars == <<states, total_pending, ready, pushes, want_err>>
RunnerVars == <<derived_files, build_dir_inputs, extra_inputs>>
WorkerVars ==
    <<tasks, workers, chan, submitted, json, received, racing, failed,
      starts>>

RunVars == <<GraphVars, pc, SchedVars, RunnerVars, WorkerVars, result>>

\* The BuildStates of the scheduler.
BS == [states |-> states, total_pending |-> total_pending,
       ready |-> ready, pushes |-> pushes]

SetBS(bs) ==
    /\ states' = bs.states
    /\ total_pending' = bs.total_pending
    /\ ready' = bs.ready
    /\ pushes' = bs.pushes

\* The inputs of build(): one more statement about a build the target needs
\* (what is said about other builds has no effect on the run).
Load(e) ==
    /\ pc = "load"
    /\ Cardinality(ninja) < MaxEdges
    /\ e \notin ninja
    /\ e[1] \in Needed(ninja, {1})
    /\ Loadable(ninja \cup {e})
    /\ ninja' = ninja \cup {e}
    /\ graph' = GraphOf(ninja')
    /\ target' = IF <<1, Aux, "target">> \in ninja' THEN Aux ELSE 1
    /\ build_dir' = {f \in Files : <<1, f, "dir">> \in ninja'}
    /\ cfg_extra_inputs' = ExtraInputsOf(ninja')
    /\ UNCHANGED <<HostVars, pc, SchedVars, RunnerVars, WorkerVars, result>>

\* build() up to Runner::read_build_dir: every regular file of the build
\* directory is added to the store and registered under its relative path.
\* The builds other than the target are interchangeable: the run starts when
\* the needed builds are 1..k.
ReadBuildDir ==
    /\ pc = "load"
    /\ Needed(ninja, {1}) = 1..Cardinality(Needed(ninja, {1}))
    /\ derived_files' =
          [f \in Files |->
              IF f \in build_dir
              THEN add_derived_file(derived_files, new_opaque_file(<<f>>),
                                    <<f>>)[f]
              ELSE derived_files[f]]
    /\ build_dir_inputs' =
          [f \in Files |->
              IF f \in build_dir THEN new_opaque_file(<<f>>)
              ELSE build_dir_inputs[f]]
    /\ pc' = "add_extra_inputs"
    /\ UNCHANGED <<HostVars, GraphVars, SchedVars, extra_inputs, WorkerVars, result>>

RECURSIVE extra_inputs_loop(_, _, _, _)
\* The loop of Runner::add_extra_inputs from entry i on: the registry and
\* extra_inputs it leaves, and whether it returned an error.
extra_inputs_loop(reg, extra, encoded, i) ==
    IF i > Len(encoded) THEN [reg |-> reg, extra |-> extra, err |-> FALSE]
    ELSE LET fid == encoded[i][1]
             path == encoded[i][2]
         IN IF fid \notin KnownFiles(reg) \/ Input(fid) = 0
            THEN [reg |-> reg, extra |-> extra, err |-> TRUE]
            ELSE LET df == new_opaque_file(path)
                 IN extra_inputs_loop(
                        add_derived_file(reg, df, path),
                        [extra EXCEPT ![Input(fid)] = Append(@, df)],
                        encoded, i + 1)

\* Runner::add_extra_inputs
AddExtraInputs ==
    /\ pc = "add_extra_inputs"
    /\ LET r == extra_inputs_loop(derived_files, extra_inputs,
                                  cfg_extra_inputs, 1)
       IN /\ derived_files' = r.reg
          /\ extra_inputs' = r.extra
          /\ IF r.err
             THEN pc' = "done" /\ result' = [err |-> "extra input"]
             ELSE pc' = "want_file" /\ UNCHANGED result
    /\ UNCHANGED <<HostVars, GraphVars, SchedVars, build_dir_inputs, WorkerVars>>

\* build(): scheduler.lookup(name), then `let _ = scheduler.want_file(fid)`.
\* The Result of want_file is dropped; want_err keeps it for the record.
WantFile ==
    /\ pc = "want_file"
    /\ IF target \notin KnownFiles(derived_files)
       THEN /\ pc' = "done"
            /\ result' = [err |-> "unknown path"]
            /\ UNCHANGED SchedVars
       ELSE LET r == want_file(BS, <<>>, target)
            IN /\ SetBS(r.bs)
               /\ want_err' = r.err
               /\ pc' = "run"
               /\ UNCHANGED result
    /\ UNCHANGED <<HostVars, GraphVars, RunnerVars, WorkerVars>>

\* Scheduler::run, one turn of the inner loop: pop_ready, set Running,
\* Runner::start (new_task and the spawn of the worker thread).
Start ==
    /\ pc = "run"
    /\ unfinished(BS)
    /\ ready # <<>>
    /\ LET bid == Head(ready)
           bs == set([BS EXCEPT !.ready = Tail(ready)], bid, "Running")
           t == new_task(derived_files, build_dir_inputs, extra_inputs, bid)
       IN /\ SetBS(bs)
          /\ derived_files' = t.reg
          /\ tasks' = [tasks EXCEPT ![bid] =
                          [known |-> received, racing |-> racing]
                          @@ t.task]
          /\ workers' = workers \cup {bid}
          /\ starts' = [starts EXCEPT ![bid] = @ + 1]
    /\ UNCHANGED <<HostVars, GraphVars, want_err, build_dir_inputs, extra_inputs, chan,
                   submitted, json, received, racing, failed, pc, result>>

\* build_task_derivation as it would be if an edge without a command were
\* given an empty derivation instead of the error of process_phony.
fails_on_host_only(task, bid) == <<bid, 0, "fail">> \in ninja

\* build_task_derivation returns Err: process_phony for a Task without a
\* command ("Unimplemented"), or a call to the host failed.
build_task_derivation_fails(task, bid) ==
    task.cmdline = None \/ <<bid, 0, "fail">> \in ninja

\* The worker thread of Runner::start: build_task_derivation, then tx.send.
\* A phony edge fails, and so does an edge for which a call to the host
\* fails.  `order` is the order in which the HashSet file_set is iterated,
\* `srcs` and `drvs` the orders in which the serializer iterates input_srcs
\* and input_drvs.
Worker(bid) ==
    /\ pc = "run"
    /\ bid \in workers
    /\ workers' = workers \ {bid}
    /\ IF ~build_task_derivation_fails(tasks[bid], bid)
       THEN \E order \in Perms(FileSet(tasks[bid])) :
                LET drv == task_derivation(tasks[bid], order)
                IN /\ submitted' = [submitted EXCEPT ![bid] = drv]
                   /\ \E srcs \in Perms(drv.inputSrcs) :
                         \E drvs \in Perms(drv.inputDrvs) :
                             json' = [json EXCEPT ![bid] =
                                         to_json(drv, srcs, drvs)]
                   /\ chan' = Append(chan,
                                 [bid |-> bid,
                                  derived_files |->
                                      task_result(tasks[bid], order),
                                  err |-> FALSE])
       ELSE /\ chan' = Append(chan, [bid |-> bid, derived_files |-> <<>>,
                                     err |-> TRUE])
            /\ UNCHANGED <<submitted, json>>
    /\ UNCHANGED <<HostVars, GraphVars, SchedVars, RunnerVars, tasks, received, racing,
                   failed, starts, pc, result>>

\* Runner::wait if it did not look at result.err.
wait_fails_never(res) == FALSE

\* Runner::wait, `if let Some(err) = result.err`.
wait_fails(res) == res.err

\* Scheduler::run when nothing is ready: Runner::wait takes the next result
\* from the channel; an error ends run(), otherwise the derived files are
\* registered and ready_dependents runs.
Wait ==
    /\ pc = "run"
    /\ unfinished(BS)
    /\ ready = <<>>
    /\ chan # <<>>
    /\ chan' = Tail(chan)
    /\ LET res == Head(chan)
       IN /\ failed' = IF res.err THEN failed \cup {res.bid} ELSE failed
          /\ racing' = {c \in Builds \ {res.bid} : states[c] = "Running"}
          /\ IF wait_fails(res)
             THEN /\ pc' = "done"
                  /\ result' = [err |-> "task", bid |-> res.bid]
                  /\ UNCHANGED <<SchedVars, derived_files, received>>
             ELSE /\ derived_files' =
                         add_derived_files(derived_files, res.derived_files)
                  /\ received' = received \cup {res.bid}
                  /\ \E bs \in ready_dependents(BS, res.bid) : SetBS(bs)
                  /\ UNCHANGED <<want_err, pc, result>>
    /\ UNCHANGED <<HostVars, GraphVars, build_dir_inputs, extra_inputs, tasks, workers,
                   submitted, json, starts>>

\* Scheduler::run returns Ok and build() looks the target up in the registry.
Finish ==
    /\ pc = "run"
    /\ ~unfinished(BS)
    /\ pc' = "done"
    /\ result' = IF derived_files[target] # None
                 THEN [ok |-> derived_files[target]]
                 ELSE [err |-> "missing derived file"]
    /\ UNCHANGED <<HostVars, GraphVars, SchedVars, RunnerVars, WorkerVars>>

Next ==
    \/ \E e \in Statements : Load(e)
    \/ ReadBuildDir
    \/ AddExtraInputs
    \/ WantFile
    \/ Start
    \/ \E bid \in Builds : Worker(bid)
    \/ Wait
    \/ Finish

Spec == Init /\ [][Next]_vars

\* --------------------------------------------------------- properties

\* The builds that produce an ordering input of build b.
DirectDeps(b) ==
    {Input(graph[b].ordering_ins[i]) : i \in 1..Len(graph[b].ordering_ins)}
    \ {0}

RECURSIVE DepsClosure(_)
DepsClosure(S) ==
    LET N == S \cup UNION {DirectDeps(b) : b \in S}
    IN IF N = S THEN S ELSE DepsClosure(N)

\* The transitive dependencies of build b (b itself when it is on a cycle).
TransDeps(b) == DepsClosure(DirectDeps(b))

\* C1: whenever the scheduler sets a build B to Running, every build in the
\* transitive dependencies of B (through ordering_ins and their producing
\* builds) is already Done.
C1_DepsDoneBeforeRunning ==
    [][\A b \in Builds :
          (states'[b] = "Running" /\ states[b] # "Running")
          => \A a \in TransDeps(b) : states[a] = "Done"]_vars

\* C1 witness: a build is Running whose dependencies reach further than its
\* own inputs, and all of them are Done.
C1_Witness ==
    \E b \in Builds :
        /\ states[b] = "Running"
        /\ TransDeps(b) # DirectDeps(b)
        /\ \A a \in TransDeps(b) : states[a] = "Done"

\* The builds that count as pending.
Pending == {b \in Builds : states[b] \in {"Want", "Ready", "Running"}}

\* C6: in every state of the scheduler total_pending is the number of builds
\* in state Want, Ready or Running, and it is never below zero.
C6_TotalPendingCounts ==
    /\ total_pending = Cardinality(Pending)
    /\ total_pending >= 0

\* C6 witness: the counter has gone up for several builds and down for one
\* that is Done, and builds are still pending.
C6_Witness ==
    /\ total_pending >= 2
    /\ \E b \in Builds : states[b] = "Done"

\* C7: where the scheduler loop dispatches or blocks, a wanted build is in
\* state Want exactly when a build producing one of its ordering_ins is not
\* Done, and Ready or further exactly when all of them are Done.
C7_ReadyIffDepsDone ==
    pc = "run" =>
        \A b \in Builds :
            states[b] # "Unneeded" =>
                /\ states[b] = "Want"
                   <=> \E a \in DirectDeps(b) : states[a] # "Done"
                /\ states[b] \in {"Ready", "Running", "Done"}
                   <=> \A a \in DirectDeps(b) : states[a] = "Done"

\* C7 witness: at a turn of the loop one build waits for an input that is not
\* Done while another has become Ready after all its producers were Done.
C7_Witness ==
    /\ pc = "run"
    /\ \E b \in Builds :
          states[b] = "Want" /\ \E a \in DirectDeps(b) : states[a] = "Done"
    /\ \E b \in Builds :
          /\ states[b] = "Ready"
          /\ DirectDeps(b) # {}
          /\ \A a \in DirectDeps(b) : states[a] = "Done"

\* The place of a state in the sequence Unneeded, Want, Ready, Running, Done.
Rank(st) ==
    CASE st = "Unneeded" -> 0
      [] st = "Want" -> 1
      [] st = "Ready" -> 2
      [] st = "Running" -> 3
      [] st = "Done" -> 4

\* C10: no step moves a build to an earlier state, and no build is pushed on
\* the ready queue or handed to a worker more than once.
C10_ForwardOnly ==
    [][\A b \in Builds :
          /\ Rank(states'[b]) >= Rank(states[b])
          /\ pushes'[b] <= 1
          /\ starts'[b] <= 1]_vars

\* C10 witness: a build that depends on two outputs of one build went through
\* Want, Ready and Running and is Done.
C10_Witness ==
    \E b \in Builds :
        /\ states[b] = "Done"
        /\ pushes[b] = 1
        /\ starts[b] = 1
        /\ \E a \in DirectDeps(b) :
              Cardinality(Range(graph[a].outs)
                          \cap Range(graph[b].ordering_ins)) = 2

\* The drv paths derivation add has returned to the workers of a set of
\* builds.
DrvPathsOf(S) ==
    {derivation_add(submitted[a]) : a \in {x \in S : submitted[x] # None}}

\* C2: every drv path in the inputDrvs of a submitted derivation was returned
\* by derivation add to a build whose result the scheduler had received and
\* registered before the Task of the submitting build was made.
C2_InputDrvsSubmittedBefore ==
    \A b \in Builds :
        submitted[b] # None =>
            submitted[b].inputDrvs \subseteq DrvPathsOf(tasks[b].known)

\* C2 witness: a submitted derivation has an input derivation that belongs to
\* a second output of the build it depends on.
C2_Witness ==
    \E b \in Builds :
        /\ submitted[b] # None
        /\ submitted[b].inputDrvs # {}
        /\ \E a \in tasks[b].known :
              /\ Len(graph[a].outs) = 2
              /\ graph[a].outs[2] \in Range(graph[b].ordering_ins)

\* C5: when wait() has taken a result with an error, build() has returned the
\* task error of that build; the build is not Done, no build that depends on
\* it has become Ready or was started, and its outputs are not registered as
\* built by it.
C5_WorkerErrorAborts ==
    \A f \in failed :
        /\ pc = "done"
        /\ result = [err |-> "task", bid |-> f]
        /\ states[f] = "Running"
        /\ f \notin received
        /\ \A d \in Builds :
              f \in TransDeps(d) =>
                  states[d] \in {"Unneeded", "Want"} /\ starts[d] = 0
        /\ \A o \in Range(graph[f].outs) :
              derived_files[o] = None \/ derived_files[o].path.kind = "Opaque"

\* C5 witness: the failed build has a dependent that was waiting for it.
C5_Witness ==
    \E f \in failed : \E d \in Builds : f \in DirectDeps(d) /\ states[d] = "Want"

\* C8: a FileId that has a DerivedFile in the registry keeps that DerivedFile
\* in every later step.
C8_RegistryAppendOnly ==
    [][\A f \in Files :
          derived_files[f] # None => derived_files'[f] = derived_files[f]]_vars

\* C8 witness: an output that the build directory scan had registered was
\* returned again, as a Built file, by the result of its build.
C8_Witness ==
    \E f \in Files :
        /\ build_dir_inputs[f] # None
        /\ Input(f) \in received

\* The FileId under which the registry keeps a source path.
SourceFid(source) == FidOf(canonicalize_path(source))

\* C9: for every build whose result was received without error, every entry
\* of its NIX_NINJA_INPUTS has a DerivedFile in the registry under the FileId
\* of its source path.
C9_EncodedInputsRegistered ==
    \A b \in received :
        \A i \in DOMAIN submitted[b].NIX_NINJA_INPUTS :
            derived_files[SourceFid(submitted[b].NIX_NINJA_INPUTS[i].source)]
                # None

\* C9 witness: a received build has an encoded input that its worker
\* discovered: it is not among the inputs of its Task.
C9_Witness ==
    \E b \in received :
        Len(submitted[b].NIX_NINJA_INPUTS) > Len(tasks[b].inputs)

\* The builds want_file goes through from the target: the producer of the
\* target and its transitive dependencies.
TargetBuilds ==
    IF Input(target) = 0 THEN {}
    ELSE {Input(target)} \cup TransDeps(Input(target))

\* C3: when a build reachable from the target depends on itself, build()
\* returns the dependency-cycle error that names the cycle, and no
\* DerivedFile.
C3_CycleRejected ==
    (pc = "done" /\ \E b \in TargetBuilds : b \in TransDeps(b))
        => result = [err |-> "dependency cycle", cycle |-> want_err]

\* The JSON texts that the worker of a Task can hand to derivation add, over
\* the iteration orders of file_set, input_srcs and input_drvs.
JsonsOf(task) ==
    UNION {LET drv == task_derivation(task, order)
           IN {to_json(drv, srcs, drvs) :
                  srcs \in Perms(drv.inputSrcs),
                  drvs \in Perms(drv.inputDrvs)} :
           order \in Perms(FileSet(task))}

\* C4: the derivation JSON a worker made of its Task is the only one a run
\* can make of that Task: a second run, with other iteration orders of the
\* hash sets and hash maps, makes the same text.
C4_JsonDeterministic ==
    \A b \in Builds : json[b] # None => JsonsOf(tasks[b]) = {json[b]}

\* Two builds neither of which is in the transitive dependencies of the
\* other.
Independent(b, c) == b # c /\ c \notin TransDeps(b) /\ b \notin TransDeps(c)

\* C11: the inputs of the Task made for a build at its dispatch are the
\* inputs new_task gives it with the results registered of builds that were
\* running beside the last dependency the scheduler waited for, and so could
\* have arrived before it.
C11_TaskIndependentOfArrivals ==
    \A b \in Builds :
        (/\ tasks[b] # None
         /\ b \notin received
         /\ received \ tasks[b].known \subseteq tasks[b].racing
         /\ \A c \in tasks[b].racing : Independent(b, c))
        => new_task(derived_files, build_dir_inputs, extra_inputs,
                    b).task.inputs = tasks[b].inputs

\* The builds want_build goes to from build b: the producers of its ordering
\* and validation inputs.
WantDeps(b) ==
    {Input(f) : f \in Range(graph[b].ordering_ins)
                      \cup Range(graph[b].validation_ins)} \ {0}

RECURSIVE WantClosure(_)
WantClosure(S) ==
    LET N == S \cup UNION {WantDeps(b) : b \in S}
    IN IF N = S THEN S ELSE WantClosure(N)

\* A build that want_file reaches from the target depends on itself through
\* ordering inputs.
CycleFromTarget ==
    /\ Input(target) # 0
    /\ \E b \in WantClosure({Input(target)}) : b \in TransDeps(b)

\* C12: want_file fails when the builds it reaches hold a cycle of ordering
\* inputs: it then reaches a file again that is still on its stack.  The
\* cycle it reports starts and ends with that file, which does not occur in
\* between, and every file of it is followed by an input of the build that
\* produces it.
C12_CycleErrorNamesChain ==
    pc = "run" =>
        /\ CycleFromTarget => want_err # <<>>
        /\ want_err # <<>> =>
              LET n == Len(want_err)
              IN /\ n >= 2
                 /\ want_err[n] = want_err[1]
                 /\ \A i \in 2..(n - 1) : want_err[i] # want_err[1]
                 /\ \A i \in 1..(n - 1) :
                       /\ Input(want_err[i]) # 0
                       /\ want_err[i + 1] \in
                             Range(graph[Input(want_err[i])].ordering_ins)
                             \cup Range(graph[Input(want_err[i])].validation_ins)

\* C12 witness: the reported cycle goes through two files and does not start
\* at the target, the bottom of the stack.
C12_Witness ==
    /\ pc = "run"
    /\ Len(want_err) >= 3
    /\ want_err[1] # target

\* C13: a build without a command never has a derivation submitted, its
\* result is never received without error and it is never Done; once it was
\* started, build() can only end with an error.
C13_PhonyUnimplemented ==
    \A b \in Builds :
        graph[b].cmdline = None =>
            /\ submitted[b] = None
            /\ json[b] = None
            /\ b \notin received
            /\ states[b] # "Done"
            /\ (starts[b] > 0 /\ pc = "done") => "err" \in DOMAIN result

\* C13 witness: run() has ended with the error of a phony build that other
\* builds were waiting for.
C13_Witness ==
    \E b \in failed :
        /\ graph[b].cmdline = None
        /\ result = [err |-> "task", bid |-> b]
        /\ \E d \in Builds : b \in DirectDeps(d) /\ states[d] = "Want"

\* ------------------------------------------- bfs_parse_includes by itself

\* The files of the calls of bfs_parse_includes, and the paths that lead to
\* them: a file f is reached by the paths f and ./f.
BfsFiles == 1..MaxBfsFiles
BfsPaths == {<<f>> : f \in BfsFiles} \cup {<<Dot, f>> : f \in BfsFiles}

RECURSIVE IncludeCount(_)
\* The number of #include lines in the files 1..n.
IncludeCount(n) == IF n = 0 THEN 0 ELSE Len(fs[n]) + IncludeCount(n - 1)

InitBfs ==
    /\ RunInit
    /\ fs = [f \in Files |-> <<>>]
    /\ arg = <<>>
    /\ out = None

\* One more #include line in the file f, resolved to the file g.
AddInclude(f, g) ==
    /\ out = None
    /\ IncludeCount(MaxBfsFiles) < MaxIncludes
    /\ fs' = [fs EXCEPT ![f] = Append(@, <<g>>)]
    /\ UNCHANGED <<RunVars, arg, out>>

\* One more path in the list of initial files.
AddInitialFile(path) ==
    /\ out = None
    /\ Len(arg) < MaxInitial
    /\ arg' = Append(arg, path)
    /\ UNCHANGED <<RunVars, fs, out>>

\* The call bfs_parse_includes(files, include_dirs).
ScanIncludes ==
    /\ out = None
    /\ out' = [ok |-> bfs_parse_includes(arg)]
    /\ UNCHANGED <<RunVars, fs, arg>>

NextBfs ==
    \/ \E f, g \in BfsFiles : AddInclude(f, g)
    \/ \E path \in BfsPaths : AddInitialFile(path)
    \/ ScanIncludes

SpecBfs == InitBfs /\ [][NextBfs]_vars

RECURSIVE ReachFiles(_)
\* The files reached from the files S through resolved includes.
ReachFiles(S) ==
    LET N == S \cup {fs_canonicalize(p) :
                        p \in UNION {Range(fs[f]) : f \in S}}
    IN IF N = S THEN S ELSE ReachFiles(N)

\* C14: in the list bfs_parse_includes returns, every initial file and every
\* file reached from the initial files through includes appears exactly
\* once, and no other file appears.
C14_EveryFileOnce ==
    out # None =>
        \A f \in Files :
            Cardinality({i \in DOMAIN out.ok : fs_canonicalize(out.ok[i]) = f})
            = IF f \in ReachFiles({fs_canonicalize(p) : p \in Range(arg)})
              THEN 1 ELSE 0

\* ------------------------------------------------ strings and StorePath

\* A string is the sequence of its characters.  "E" stands for a character
\* that takes two bytes in UTF-8, the others take one.
Chars == {"a", "-", "/", ":", "E"}
Width(c) == IF c = "E" THEN 2 ELSE 1

\* The length of the hash in a store path name.
HashLen == 32

\* str::len: the number of bytes, one for each character and one more for
\* each character that takes two.
len(s) == Len(s) + Cardinality({i \in DOMAIN s : Width(s[i]) = 2})

RECURSIVE split(_, _)
\* str::split on a character: the pieces between its occurrences.
split(s, sep) ==
    IF \A i \in DOMAIN s : s[i] # sep THEN <<s>>
    ELSE LET k == CHOOSE i \in DOMAIN s :
                      s[i] = sep /\ \A j \in 1..(i - 1) : s[j] # sep
         IN <<SubSeq(s, 1, k - 1)>> \o split(SubSeq(s, k + 1, Len(s)), sep)

\* Path::file_name: the last component of a path, None when it has none.
file_name(path) ==
    LET comps == SelectSeq(split(path, "/"), LAMBDA c : c # <<>>)
    IN IF comps = <<>> THEN None ELSE [some |-> comps[Len(comps)]]

\* A slice &s[from..to] by byte offsets: the characters that lie in it; the
\* slice panics when an offset falls inside a character or behind the end.
slice(s, from, to) ==
    LET start(i) == len(SubSeq(s, 1, i - 1))
        bounds == {start(i) : i \in 1..(Len(s) + 1)}
    IN IF from \notin bounds \/ to \notin bounds THEN [panic |-> TRUE]
       ELSE LET first == Cardinality({i \in DOMAIN s : start(i) < from})
                last == Cardinality({i \in DOMAIN s : start(i) < to})
            IN [ok |-> SubSeq(s, first + 1, last)]

\* StorePath::new
StorePath_new(path) ==
    IF file_name(path) = None THEN [err |-> "missing filename"]
    ELSE LET filename == file_name(path).some
         IN IF len(filename) <= HashLen + 1
               \/ Len(filename) < HashLen + 1
               \/ filename[HashLen + 1] # "-"
            THEN [err |-> "expected 32-character hash followed by dash"]
            ELSE [ok |-> path]

\* StorePath::hash_part and StorePath::name of a validated path.
hash_part(path) == slice(file_name(path).some, 0, HashLen)
name(path) ==
    slice(file_name(path).some, HashLen + 1, len(file_name(path).some))

\* DerivedFile::to_encoded on strings: "<store path>:<source>".
to_encoded_string(df) == df.path.store \o <<":">> \o df.source

\* DerivedFile::from_encoded as it would be if it split at the first ':'
\* only.
from_encoded_split_once(encoded) ==
    LET parts == split(encoded, ":")
    IN IF Len(parts) < 2 THEN [err |-> "expected one ':'"]
       ELSE [ok |-> [path |-> [kind |-> "Opaque", store |-> parts[1]],
                     source |-> SubSeq(encoded, Len(parts[1]) + 2,
                                       Len(encoded))]]

\* DerivedFile::from_encoded
from_encoded(encoded) ==
    LET parts == split(encoded, ":")
    IN IF Len(parts) # 2 THEN [err |-> "expected one ':'"]
       ELSE IF "err" \in DOMAIN StorePath_new(parts[1])
       THEN StorePath_new(parts[1])
       ELSE [ok |-> [path |-> [kind |-> "Opaque", store |-> parts[1]],
                     source |-> parts[2]]]

\* ------------------------------------- to_encoded / from_encoded by itself

\* A run of n characters a.
Run(n) == [i \in 1..n |-> "a"]

\* Two store paths that StorePath::new accepts.
StorePaths ==
    {Run(HashLen) \o <<"-", "a">>, <<"/">> \o Run(HashLen) \o <<"-", "a">>}

InitEncoded ==
    /\ RunInit
    /\ fs = HostFs
    /\ \E sp \in StorePaths :
          arg = [path |-> [kind |-> "Opaque", store |-> sp], source |-> <<>>]
    /\ out = None

\* One more character in the source path of the DerivedFile.
AppendSource(c) ==
    /\ out = None
    /\ Len(arg.source) < MaxSource
    /\ arg' = [arg EXCEPT !.source = Append(@, c)]
    /\ UNCHANGED <<RunVars, fs, out>>

\* to_encoded, then from_encoded of the string.
EncodeDecode ==
    /\ out = None
    /\ out' = [encoded |-> to_encoded_string(arg),
               decoded |-> from_encoded(to_encoded_string(arg))]
    /\ UNCHANGED <<RunVars, fs, arg>>

NextEncoded ==
    \/ \E c \in Chars : AppendSource(c)
    \/ EncodeDecode

SpecEncoded == InitEncoded /\ [][NextEncoded]_vars

\* C15: from_encoded of the encoding of a DerivedFile with an Opaque store
\* path succeeds and gives the DerivedFile back, whose encoding is the same
\* string again.
C15_EncodedRoundTrip ==
    out # None => out.decoded = [ok |-> arg]

\* ------------------------------- StorePath::new / from_encoded by itself

\* The pieces a string is put together from: single characters, and a run
\* of a that is one short of a hash.
Tokens == {<<c>> : c \in Chars} \cup {Run(HashLen - 1)}

InitParse ==
    /\ RunInit
    /\ fs = HostFs
    /\ arg = [tokens |-> 0, s |-> <<>>]
    /\ out = None

\* One more piece at the end of the string.
AppendToken(t) ==
    /\ out = None
    /\ arg.tokens < MaxTokens
    /\ arg' = [tokens |-> arg.tokens + 1, s |-> arg.s \o t]
    /\ UNCHANGED <<RunVars, fs, out>>

\* StorePath::new(s), and the accessors on the StorePath it returns.
NewStorePath ==
    /\ out = None
    /\ out' = IF "ok" \in DOMAIN StorePath_new(arg.s)
              THEN [store_path |-> StorePath_new(arg.s),
                    hash_part |-> hash_part(arg.s),
                    name |-> name(arg.s)]
              ELSE [store_path |-> StorePath_new(arg.s)]
    /\ UNCHANGED <<RunVars, fs, arg>>

\* DerivedFile::from_encoded(s)
Decode ==
    /\ out = None
    /\ out' = [decoded |-> from_encoded(arg.s)]
    /\ UNCHANGED <<RunVars, fs, arg>>

NextParse ==
    \/ \E t \in Tokens : AppendToken(t)
    \/ NewStorePath
    \/ Decode

SpecParse == InitParse /\ [][NextParse]_vars

\* The number of ':' in a string.
Colons(s) == Cardinality({i \in DOMAIN s : s[i] = ":"})

\* C16: from_encoded returns an error, and no DerivedFile, for every string
\* in which the number of ':' is not one.
C16_DecodeNeedsOneColon ==
    (out # None /\ "decoded" \in DOMAIN out /\ Colons(arg.s) # 1)
        => DOMAIN out.decoded = {"err"}

\* C16 witness: a string with two ':' is rejected although it starts with a
\* store path and a ':'.
C16_Witness ==
    /\ out # None
    /\ "decoded" \in DOMAIN out
    /\ Colons(arg.s) = 2
    /\ "ok" \in DOMAIN StorePath_new(split(arg.s, ":")[1])
    /\ DOMAIN out.decoded = {"err"}

\* C17: StorePath::new rejects a path exactly when its final component has
\* fewer than 34 characters or another character than '-' at index 32; for
\* an accepted path hash_part is the first 32 characters of the final
\* component and name is what follows the dash, which is not empty.
C17_StorePathFormat ==
    (out # None /\ "store_path" \in DOMAIN out) =>
        LET fn == file_name(arg.s)
            bad == \/ fn = None
                   \/ Len(fn.some) < HashLen + 2
                   \/ fn.some[HashLen + 1] # "-"
        IN /\ bad = ("err" \in DOMAIN out.store_path)
           /\ ~bad =>
                 /\ out.hash_part = [ok |-> SubSeq(fn.some, 1, HashLen)]
                 /\ out.name = [ok |-> SubSeq(fn.some, HashLen + 2,
                                              Len(fn.some))]
                 /\ out.name.ok # <<>>


(***************************************************************************)
(* Compiler command lines: gcc_include_parser.rs, gcc_depfile_parser.rs.   *)
(* A command line is a string of characters; an argument is one as well.   *)
(***************************************************************************)

MaxWords == 4

starts_with(s, prefix) ==
    Len(s) >= Len(prefix) /\ SubSeq(s, 1, Len(prefix)) = prefix
contains(s, pat) ==
    \E i \in 1..(Len(s) - Len(pat) + 1) : SubSeq(s, i, i + Len(pat) - 1) = pat
skip(s, n) == SubSeq(s, n + 1, Len(s))

\* shell_words::split over blanks and single quotes: a blank ends a word
\* outside quotes, a quote opens or closes a quoted stretch of the word, and
\* a quote left open at the end is an error.
RECURSIVE shell_words_scan(_, _, _, _, _)

shell_words_scan(s, i, state, word, words) ==
    IF i > Len(s)
    THEN CASE state = "Delimiter" -> [ok |-> words]
           [] state = "Unquoted" -> [ok |-> Append(words, word)]
           [] OTHER -> [err |-> "missing closing quote"]
    ELSE LET c == s[i]
         IN CASE state = "Delimiter" ->
                   IF c = " "
                   THEN shell_words_scan(s, i + 1, "Delimiter", <<>>, words)
                   ELSE IF c = "'"
                   THEN shell_words_scan(s, i + 1, "SingleQuoted", <<>>, words)
                   ELSE shell_words_scan(s, i + 1, "Unquoted", <<c>>, words)
              [] state = "Unquoted" ->
                   IF c = " "
                   THEN shell_words_scan(s, i + 1, "Delimiter", <<>>,
                                         Append(words, word))
                   ELSE IF c = "'"
                   THEN shell_words_scan(s, i + 1, "SingleQuoted", word, words)
                   ELSE shell_words_scan(s, i + 1, "Unquoted",
                                         Append(word, c), words)
              [] OTHER ->
                   IF c = "'"
                   THEN shell_words_scan(s, i + 1, "Unquoted", word, words)
                   ELSE shell_words_scan(s, i + 1, "SingleQuoted",
                                         Append(word, c), words)

shell_words_split(s) == shell_words_scan(s, 1, "Delimiter", <<>>, <<>>)

\* The while loop of parse_include_dirs from argument i on.
RECURSIVE include_dirs_loop(_, _, _)

include_dirs_loop(args, i, include_dirs) ==
    IF i > Len(args) THEN include_dirs
    ELSE LET a == args[i]
         IN IF /\ starts_with(a, <<"-", "I">>)
               /\ len(a) > 2
               /\ ~starts_with(skip(a, 2), <<"=">>)
            THEN include_dirs_loop(args, i + 1,
                                   Append(include_dirs, skip(a, 2)))
            ELSE IF a = <<"-", "I">> /\ i + 1 <= Len(args)
            THEN include_dirs_loop(args, i + 2,
                                   Append(include_dirs, args[i + 1]))
            ELSE IF starts_with(a, <<"-", "I", "=">>)
            THEN include_dirs_loop(args, i + 1,
                                   Append(include_dirs, skip(a, 3)))
            ELSE include_dirs_loop(args, i + 1, include_dirs)

\* parse_include_dirs as it would be if it read the attached and the equals
\* form only and took an argument after "-I" for an argument of its own.
parse_include_dirs_one_word(cmdline) ==
    LET split_args == shell_words_split(cmdline)
    IN IF "err" \in DOMAIN split_args
       THEN [err |-> "Invalid command line syntax"]
       ELSE LET sel == SelectSeq(split_args.ok,
                           LAMBDA a : starts_with(a, <<"-", "I">>) /\ len(a) > 2)
            IN [ok |-> [k \in 1..Len(sel) |->
                          IF starts_with(sel[k], <<"-", "I", "=">>)
                          THEN skip(sel[k], 3) ELSE skip(sel[k], 2)]]

\* parse_include_dirs
parse_include_dirs(cmdline) ==
    LET split_args == shell_words_split(cmdline)
    IN IF "err" \in DOMAIN split_args
       THEN [err |-> "Invalid command line syntax"]
       ELSE [ok |-> include_dirs_loop(split_args.ok, 1, <<>>)]


SUPPORTED_COMPILERS ==
    { <<"g", "c", "c">>, <<"g", "+", "+">>, <<"c", "l", "a", "n", "g">>,
      <<"c", "l", "a", "n", "g", "+", "+">>, <<"c", "c">>, <<"c", "+", "+">>,
      <<"e", "m", "c", "c">>, <<"e", "m", "+", "+">> }

\* DepsConfig with the default output path.
DepsConfig(system_headers) ==
    [output_path |-> <<"d", ".", "d">>,
     include_system_headers |-> system_headers]

\* A flag that takes its value in the same argument or in the next one, as
\* the loop of create_deps_command reads it: the pushed flags and the number
\* of arguments read.
flag_with_value(args, i, flag) ==
    IF len(args[i]) > len(flag) THEN [push |-> <<args[i]>>, read |-> 1]
    ELSE IF i + 1 <= Len(args)
    THEN [push |-> <<flag \o args[i + 1]>>, read |-> 2]
    ELSE [push |-> <<>>, read |-> 1]

\* The while loop of create_deps_command from argument i on.
RECURSIVE deps_args_loop(_, _, _)

\* create_deps_command's loop as it would be if -o, -MF and -MQ were dropped
\* without the argument that follows them.
RECURSIVE deps_args_loop_keeping_operands(_, _, _)

deps_args_loop_keeping_operands(args, i, found) ==
    IF i > Len(args) THEN found
    ELSE LET a == args[i]
         IN IF starts_with(a, <<"-", "I">>)
            THEN LET f == flag_with_value(args, i, <<"-", "I">>)
                 IN deps_args_loop_keeping_operands(args, i + f.read,
                        [found EXCEPT !.include_flags = @ \o f.push])
            ELSE IF starts_with(a, <<"-", "i", "s", "y", "s", "t", "e", "m">>)
            THEN LET f == flag_with_value(args, i,
                              <<"-", "i", "s", "y", "s", "t", "e", "m">>)
                 IN deps_args_loop_keeping_operands(args, i + f.read,
                        [found EXCEPT !.include_flags = @ \o f.push])
            ELSE IF starts_with(a, <<"-", "s", "t", "d", "=">>)
            THEN deps_args_loop_keeping_operands(args, i + 1,
                        [found EXCEPT !.std_flag = <<a>>])
            ELSE IF starts_with(a, <<"-", "D">>)
            THEN LET f == flag_with_value(args, i, <<"-", "D">>)
                 IN deps_args_loop_keeping_operands(args, i + f.read,
                        [found EXCEPT !.define_flags = @ \o f.push])
            ELSE IF ~starts_with(a, <<"-">>) /\ contains(a, <<".">>)
            THEN deps_args_loop_keeping_operands(args, i + 1,
                        [found EXCEPT !.input_file = <<a>>])
            ELSE deps_args_loop_keeping_operands(args, i + 1, found)

deps_args_loop(args, i, found) ==
    IF i > Len(args) THEN found
    ELSE LET a == args[i]
         IN IF starts_with(a, <<"-", "I">>)
            THEN LET f == flag_with_value(args, i, <<"-", "I">>)
                 IN deps_args_loop(args, i + f.read,
                        [found EXCEPT !.include_flags = @ \o f.push])
            ELSE IF starts_with(a, <<"-", "i", "s", "y", "s", "t", "e", "m">>)
            THEN LET f == flag_with_value(args, i,
                              <<"-", "i", "s", "y", "s", "t", "e", "m">>)
                 IN deps_args_loop(args, i + f.read,
                        [found EXCEPT !.include_flags = @ \o f.push])
            ELSE IF starts_with(a, <<"-", "s", "t", "d", "=">>)
            THEN deps_args_loop(args, i + 1,
                        [found EXCEPT !.std_flag = <<a>>])
            ELSE IF starts_with(a, <<"-", "D">>)
            THEN LET f == flag_with_value(args, i, <<"-", "D">>)
                 IN deps_args_loop(args, i + f.read,
                        [found EXCEPT !.define_flags = @ \o f.push])
            ELSE IF ~starts_with(a, <<"-">>) /\ contains(a, <<".">>)
            THEN deps_args_loop(args, i + 1,
                        [found EXCEPT !.input_file = <<a>>])
            ELSE IF /\ a \in {<<"-", "o">>, <<"-", "M", "F">>, <<"-", "M", "Q">>}
                    /\ i + 1 <= Len(args)
            THEN deps_args_loop(args, i + 2, found)
            ELSE deps_args_loop(args, i + 1, found)

\* create_deps_command: the program and the arguments of the Command.
create_deps_command(cmdline, config) ==
    LET split_args == shell_words_split(cmdline)
    IN IF "err" \in DOMAIN split_args THEN [err |-> "ParseError"]
       ELSE IF split_args.ok = <<>> THEN [err |-> "ParseError: Empty command"]
       ELSE
       LET args == split_args.ok
           compiler == args[1]
           compiler_name == IF file_name(compiler) = None THEN compiler
                            ELSE file_name(compiler).some
       IN IF ~\E c \in SUPPORTED_COMPILERS :
                 compiler_name = c \/ contains(compiler_name, c)
          THEN [err |-> "UnsupportedCompiler"]
          ELSE
          LET found == deps_args_loop(args, 2,
                         [include_flags |-> <<>>, std_flag |-> <<>>,
                          define_flags |-> <<>>, input_file |-> <<>>])
          IN IF found.input_file = <<>>
             THEN [err |-> "ParseError: Could not identify input file"]
             ELSE [ok |-> <<compiler>> \o found.include_flags
                          \o found.std_flag \o found.define_flags
                          \o << IF config.include_system_headers
                                THEN <<"-", "M">> ELSE <<"-", "M", "M">>,
                                <<"-", "M", "F">>, config.output_path >>
                          \o found.input_file]

\* The arguments command lines are written with: a compiler, the include,
\* define and standard flags in their forms, flags with an operand, another
\* flag, two files, a plain word, and a word that opens a quote.
Words ==
    { <<"g", "+", "+">>,
      <<"-", "I">>, <<"-", "I", "a">>, <<"-", "I", "=", "a">>,
      <<"-", "i", "s", "y", "s", "t", "e", "m">>,
      <<"-", "i", "s", "y", "s", "t", "e", "m", "b">>,
      <<"-", "D">>, <<"-", "D", "X">>, <<"-", "s", "t", "d", "=", "c">>,
      <<"-", "o">>, <<"-", "M", "F">>, <<"-", "c">>,
      <<"a", ".", "c">>, <<"b", ".", "o">>, <<"b">>, <<"'", "b">> }

InitCmd ==
    /\ RunInit
    /\ fs = HostFs
    /\ arg = [words |-> 0, s |-> <<>>]
    /\ out = None

\* One more argument on the command line.
AppendWord(w) ==
    /\ out = None
    /\ arg.words < MaxWords
    /\ arg' = [words |-> arg.words + 1,
               s |-> IF arg.s = <<>> THEN w ELSE arg.s \o <<" ">> \o w]
    /\ UNCHANGED <<RunVars, fs, out>>

\* retrieve_c_includes: the include directories it searches.
RetrieveIncludeDirs ==
    /\ out = None
    /\ out' = [include_dirs |-> parse_include_dirs(arg.s)]
    /\ UNCHANGED <<RunVars, fs, arg>>

CreateDepsCommand(system_headers) ==
    /\ out = None
    /\ out' = [deps |-> create_deps_command(arg.s, DepsConfig(system_headers)),
               config |-> DepsConfig(system_headers)]
    /\ UNCHANGED <<RunVars, fs, arg>>

NextCmd ==
    \/ \E w \in Words : AppendWord(w)
    \/ RetrieveIncludeDirs
    \/ \E system_headers \in BOOLEAN : CreateDepsCommand(system_headers)

SpecCmd == InitCmd /\ [][NextCmd]_vars


\* The arguments of a command line that has them.
ArgsOf(cmdline) == shell_words_split(cmdline).ok

\* Argument i is the value of a preceding argument that is one of the flags
\* written apart from their value: the unbroken run of such flags that ends
\* just before i, not reaching below first, has odd length.
IsValueOf(args, i, flags, first) ==
    LET run == CHOOSE k \in 0..(i - first) :
                   /\ \A j \in (i - k)..(i - 1) : args[j] \in flags
                   /\ i - k - 1 < first \/ args[i - k - 1] \notin flags
    IN run % 2 = 1

\* The directories the flags give, in the order of the command line: the
\* rest of an argument that starts with a flag (after '=' if there is one),
\* or the argument that follows a flag standing alone.
GivenDirs(args, flags) ==
    LET free == {i \in DOMAIN args : ~IsValueOf(args, i, flags, 1)}
        flag(i) == CHOOSE f \in flags : starts_with(args[i], f)
        givers == {i \in free :
                     /\ \E f \in flags : starts_with(args[i], f)
                     /\ Len(args[i]) > Len(flag(i)) \/ i < Len(args)}
        order == SortedSeq(givers)
        dir(i) == IF args[i] = flag(i) THEN args[i + 1]
                  ELSE IF starts_with(args[i], flag(i) \o <<"=">>)
                  THEN skip(args[i], Len(flag(i)) + 1)
                  ELSE skip(args[i], Len(flag(i)))
    IN [k \in 1..Len(order) |-> dir(order[k])]

\* C18: parse_include_dirs returns exactly the directories of the -I
\* occurrences of the command line, attached (-Idir), separated (-I dir) or
\* with an equals sign (-I=dir), in command-line order; no other argument
\* gives a directory, and a command line that cannot be split is an error.
C18_IncludeDirsExact ==
    (out # None /\ "include_dirs" \in DOMAIN out) =>
        IF "err" \in DOMAIN shell_words_split(arg.s)
        THEN "err" \in DOMAIN out.include_dirs
        ELSE out.include_dirs =
                 [ok |-> GivenDirs(ArgsOf(arg.s), {<<"-", "I">>})]

\* All three forms on one command line, with another argument behind them.
C18_Witness ==
    /\ out # None /\ "include_dirs" \in DOMAIN out
    /\ "ok" \in DOMAIN shell_words_split(arg.s)
    /\ ArgsOf(arg.s) = << <<"-", "I", "a">>, <<"-", "I">>, <<"b">>,
                          <<"-", "I", "=", "a">> >>
    /\ out.include_dirs = [ok |-> << <<"a">>, <<"b">>, <<"a">> >>]

\* C19: the include directories retrieve_c_includes searches contain the
\* directories given with -isystem as well as those given with -I, in
\* command-line order.
C19_SystemDirsIncluded ==
    (/\ out # None /\ "include_dirs" \in DOMAIN out
     /\ "ok" \in DOMAIN shell_words_split(arg.s)) =>
        out.include_dirs =
            [ok |-> GivenDirs(ArgsOf(arg.s),
                              {<<"-", "I">>,
                               <<"-", "i", "s", "y", "s", "t", "e", "m">>})]


\* The arguments behind the compiler that are not the value of one of the
\* flags create_deps_command reads together with the argument after them
\* when they stand alone.
FreeArgs(args) ==
    {i \in 2..Len(args) :
        ~IsValueOf(args, i,
                   { <<"-", "I">>, <<"-", "i", "s", "y", "s", "t", "e", "m">>,
                     <<"-", "D">>, <<"-", "o">>, <<"-", "M", "F">>,
                     <<"-", "M", "Q">> }, 2)}

\* The occurrences of the given flags in attached form, in command-line
\* order: an argument that starts with the flag and goes on, or the flag
\* joined with the argument that follows it.
AttachedFlags(args, flags) ==
    LET flag(i) == CHOOSE f \in flags : starts_with(args[i], f)
        at == {i \in FreeArgs(args) :
                 /\ \E f \in flags : starts_with(args[i], f)
                 /\ Len(args[i]) > Len(flag(i)) \/ i < Len(args)}
        order == SortedSeq(at)
    IN [k \in 1..Len(order) |->
          IF args[order[k]] = flag(order[k])
          THEN flag(order[k]) \o args[order[k] + 1]
          ELSE args[order[k]]]

InputFiles(args) ==
    {i \in FreeArgs(args) :
        ~starts_with(args[i], <<"-">>) /\ contains(args[i], <<".">>)}

SupportedCommand(cmdline) ==
    /\ "ok" \in DOMAIN shell_words_split(cmdline)
    /\ ArgsOf(cmdline) # <<>>
    /\ LET compiler == ArgsOf(cmdline)[1]
           base == IF file_name(compiler) = None THEN compiler
                   ELSE file_name(compiler).some
       IN \E c \in SUPPORTED_COMPILERS : contains(base, c)

\* C20: for a command of a supported compiler that has an input file,
\* create_deps_command gives the compiler, the -I and -isystem flags in
\* command-line order and attached form, a -std= flag if there is one, the
\* -D flags in command-line order, -M if system headers are wanted and -MM
\* otherwise, -MF and the configured output path, and an input file last;
\* nothing else of the command line is kept.
C20_DepsCommandShape ==
    (/\ out # None /\ "deps" \in DOMAIN out
     /\ SupportedCommand(arg.s)
     /\ InputFiles(ArgsOf(arg.s)) # {}) =>
        LET args == ArgsOf(arg.s)
            includes == AttachedFlags(args, {<<"-", "I">>,
                            <<"-", "i", "s", "y", "s", "t", "e", "m">>})
            defines == AttachedFlags(args, {<<"-", "D">>})
            std_flags == {i \in FreeArgs(args) :
                             starts_with(args[i], <<"-", "s", "t", "d", "=">>)}
            stds == IF std_flags = {} THEN {<<>>}
                    ELSE {<<args[i]>> : i \in std_flags}
            mode == IF out.config.include_system_headers
                    THEN <<"-", "M">> ELSE <<"-", "M", "M">>
        IN \E std \in stds : \E i \in InputFiles(args) :
              out.deps = [ok |-> <<args[1]>> \o includes \o std \o defines
                                 \o <<mode, <<"-", "M", "F">>,
                                      out.config.output_path, args[i]>>]

\* A define ahead of an include: the include comes out first and the input
\* file is last.
C20_Witness ==
    /\ out # None /\ "deps" \in DOMAIN out
    /\ ~out.config.include_system_headers
    /\ SupportedCommand(arg.s)
    /\ ArgsOf(arg.s) = << <<"g", "+", "+">>, <<"-", "D", "X">>,
                          <<"-", "I", "a">>, <<"a", ".", "c">> >>
    /\ out.deps = [ok |-> << <<"g", "+", "+">>, <<"-", "I", "a">>,
                             <<"-", "D", "X">>, <<"-", "M", "M">>,
                             <<"-", "M", "F">>, <<"d", ".", "d">>,
                             <<"a", ".", "c">> >>]


\* C27: the input file create_deps_command takes is the first argument that
\* does not start with '-' and contains '.', the values of -o, -MF, -MQ and
\* of separated -I, -isystem and -D apart; a command without one is an error.
C27_FirstInputFile ==
    (out # None /\ "deps" \in DOMAIN out /\ SupportedCommand(arg.s)) =>
        LET args == ArgsOf(arg.s)
            first == CHOOSE i \in InputFiles(args) :
                         \A j \in InputFiles(args) : i <= j
        IN IF InputFiles(args) = {} THEN "err" \in DOMAIN out.deps
           ELSE /\ "ok" \in DOMAIN out.deps
                /\ out.deps.ok[Len(out.deps.ok)] = args[first]


\* C29: want_file reports a dependency cycle only when a build depends on
\* itself through ordering inputs; a validation input whose producing build
\* has an output of the validated build among its inputs is no cycle.
C29_CycleOnlyInOrdering ==
    (pc = "run" /\ want_err # <<>>) => \E b \in Builds : b \in TransDeps(b)


\* C23: when want_file returns Ok for the target, every build reached from it
\* through producing builds, ordering inputs and validation inputs has left
\* Unneeded: it is Ready when no build that produces one of its ordering
\* inputs is short of Done, and Want otherwise.
C23_WantMarksClosure ==
    [][(pc = "want_file" /\ pc' = "run" /\ want_err' = <<>>
        /\ Input(target) # 0)
       => \A b \in WantClosure({Input(target)}) :
             states'[b] = IF \A a \in DirectDeps(b) : states'[a] = "Done"
                          THEN "Ready" ELSE "Want"]_vars

\* C23 witness: want_file has returned Ok and nothing was started; three
\* builds are wanted, one of them reached through a validation input only.
C23_Witness ==
    /\ pc = "run" /\ want_err = <<>>
    /\ \A b \in Builds : states[b] \in {"Want", "Ready"}
    /\ \E b \in Builds : states[b] = "Want"
    /\ \E b \in Builds \ {Input(target)} :
          /\ \E c \in Builds : b \in Range(graph[c].validation_ins)
          /\ \A c \in Builds : b \notin DirectDeps(c)


\* C22: once a build is Done, the registry holds for each of its output files
\* the Built path made of the drv path derivation add returned for that build
\* and of the normalized output name, whatever was registered under the
\* name before.
C22_DoneOutputsBuilt ==
    \A b \in Builds :
        states[b] = "Done" =>
            \A f \in Range(graph[b].outs) :
                /\ derived_files[f] # None
                /\ derived_files[f].path =
                       [kind |-> "Built",
                        drv |-> derivation_add(submitted[b]),
                        output |-> normalize_output(<<f>>)[1]]


\* The run under the scheduling of the program: the scheduler thread, the
\* only one the loop of run() is on, goes on whenever it can start a build,
\* take a result from the channel or return.
SpecFair ==
    /\ Init /\ [][Next]_vars
    /\ WF_vars(Start) /\ WF_vars(Wait) /\ WF_vars(Finish)

EncodedLess(e, f) ==
    LET x == e.input
        y == f.input
    IN \/ IF x[1] # y[1] THEN x[1] = "store"
          ELSE IF x[1] = "store" THEN x[2] < y[2]
          ELSE x[2] < y[2] \/ (x[2] = y[2] /\ x[3] < y[3])
       \/ x = y /\ SeqLess(e.source, f.source)

\* C25: the entries of NIX_NINJA_INPUTS of every submitted derivation are in
\* the DerivedFile sort order (by derived path, then by source), the entries
\* of the headers the worker discovered included.
C25_InputsSorted ==
    \A b \in Builds :
        submitted[b] # None =>
            \A i, j \in DOMAIN submitted[b].NIX_NINJA_INPUTS :
                i < j => ~EncodedLess(submitted[b].NIX_NINJA_INPUTS[j],
                                      submitted[b].NIX_NINJA_INPUTS[i])

\* C30: no two entries of NIX_NINJA_INPUTS of a submitted derivation have the
\* same source path after canonicalization, the entries of the discovered
\* headers included: create_symlinks never makes two links at one location.
C30_NoDuplicateSources ==
    \A b \in Builds :
        submitted[b] # None =>
            \A i, j \in DOMAIN submitted[b].NIX_NINJA_INPUTS :
                i # j => canonicalize_path(submitted[b].NIX_NINJA_INPUTS[i].source)
                         # canonicalize_path(submitted[b].NIX_NINJA_INPUTS[j].source)

\* ---------------------------------- the env and the outputs of a derivation

MaxVars == 2
MaxOuts == 2
MaxName == 3

\* The names of the variables build_task_derivation tests for or sets.
Key ==
    [NIX_LDFLAGS |-> <<"N", "I", "X", "_", "L", "D", "F", "L", "A", "G", "S">>,
     NIX_CFLAGS_COMPILE |->
         <<"N", "I", "X", "_", "C", "F", "L", "A", "G", "S", "_",
           "C", "O", "M", "P", "I", "L", "E">>,
     NIX_CC_WRAPPER |->
         <<"N", "I", "X", "_", "C", "C", "_",
           "W", "R", "A", "P", "P", "E", "R">>,
     NIX_NINJA_INPUTS |->
         <<"N", "I", "X", "_", "N", "I", "N", "J", "A", "_",
           "I", "N", "P", "U", "T", "S">>,
     NIX_NINJA_OUTPUTS |->
         <<"N", "I", "X", "_", "N", "I", "N", "J", "A", "_",
           "O", "U", "T", "P", "U", "T", "S">>,
     PATH |-> <<"P", "A", "T", "H">>]

\* env::vars() of the host, as Runner::new keeps it in env_vars: at most
\* MaxVars variables with one of two values.  The names are those of the
\* allow-list, names that come close to it, and names the derivation sets.
HostEnvs ==
    LET HostKeys == {Key.NIX_LDFLAGS, Key.NIX_LDFLAGS \o <<"_", "X">>,
                     Key.NIX_CFLAGS_COMPILE,
                     Key.NIX_CC_WRAPPER \o <<"_", "X">>,
                     SubSeq(Key.NIX_CC_WRAPPER, 1, 6),
                     Key.NIX_NINJA_INPUTS, Key.PATH}
    IN UNION {[S -> {1, 2}] :
                 S \in {T \in SUBSET HostKeys : Cardinality(T) <= MaxVars}}

\* The names of the output files of an edge: at most MaxName characters, a
\* letter, '-' or '/', with no empty path component.
OutPaths ==
    {p \in UNION {[1..n -> {97, Dash, Slash}] : n \in 1..MaxName} :
        /\ p[1] # Slash
        /\ p[Len(p)] # Slash
        /\ \A i \in 1..(Len(p) - 1) : ~(p[i] = Slash /\ p[i + 1] = Slash)}

\* Derivation::add_env: HashMap::insert on env.
add_env(env, key, value) ==
    [k \in DOMAIN env \cup {key} |-> IF k = key THEN value ELSE env[k]]

\* Derivation::add_ca_output: HashMap::insert on outputs.
add_ca_output(outputs, output_name, hash_algo, method) ==
    [n \in DOMAIN outputs \cup {output_name} |->
        IF n = output_name
        THEN [hash_algo |-> hash_algo, method |-> method, hash |-> None]
        ELSE outputs[n]]

\* The test of the env propagation loop if it let every variable through.
propagated_always(key) == TRUE

\* The test of the env propagation loop: the variable is not skipped.
propagated(key) ==
    \/ key \in {Key.NIX_LDFLAGS, Key.NIX_CFLAGS_COMPILE}
    \/ starts_with(key, Key.NIX_CC_WRAPPER)

\* which_store_path: `which` looks the binary up in the directories of the
\* host's PATH.  The value of PATH in this model is the store path whose
\* bin/ holds every tool.
which_store_path(env_vars) ==
    IF Key.PATH \in DOMAIN env_vars THEN [ok |-> env_vars[Key.PATH]]
    ELSE [err |-> "which"]

RECURSIVE task_outputs(_, _, _)
\* The loop of build_task_derivation over task.outputs from index i: the
\* outputs of the derivation.
task_outputs(drv_outputs, outputs, i) ==
    IF i > Len(outputs) THEN drv_outputs
    ELSE task_outputs(add_ca_output(drv_outputs,
                                    normalize_output(outputs[i].source),
                                    "sha256", "nar"),
                      outputs, i + 1)

\* The env and the outputs of the derivation build_task_derivation makes for
\* an edge without inputs whose output files are `outs`, on a host with the
\* variables env_vars.  Both tools are resolved by which_store_path:
\* coreutils when build() starts, the binary of the command here.  The
\* DerivedOutputs are those of Runner::new_task; an encoded output is kept as
\* its placeholder and its source.
build_task_derivation(env_vars, outs) ==
    LET outputs == [i \in DOMAIN outs |->
                       [placeholder |-> [output |-> normalize_output(outs[i])],
                        source |-> outs[i]]]
        env0 == [k \in {x \in DOMAIN env_vars : propagated(x)} |-> env_vars[k]]
        env1 == add_env(env0, Key.NIX_NINJA_INPUTS, <<>>)
        env2 == add_env(env1, Key.NIX_NINJA_OUTPUTS, outputs)
        coreutils == which_store_path(env_vars)
        cmdline_path == which_store_path(env_vars)
    IN IF "err" \in DOMAIN coreutils THEN coreutils
       ELSE [ok |-> [env |-> add_env(env2, Key.PATH,
                                     <<coreutils.ok, cmdline_path.ok>>),
                     outputs |-> task_outputs(<<>>, outputs, 1)]]

InitDrv ==
    /\ RunInit
    /\ fs = HostFs
    /\ arg = [env_vars |-> <<>>, outs |-> <<>>]
    /\ out = None

\* One more variable in the environment of the host.
SetEnv(env_vars) ==
    /\ out = None
    /\ DOMAIN arg.env_vars \subseteq DOMAIN env_vars
    /\ Cardinality(DOMAIN env_vars) = Cardinality(DOMAIN arg.env_vars) + 1
    /\ \A k \in DOMAIN arg.env_vars : env_vars[k] = arg.env_vars[k]
    /\ arg' = [arg EXCEPT !.env_vars = env_vars]
    /\ UNCHANGED <<RunVars, fs, out>>

\* One more output file of the edge.
AddOut(path) ==
    /\ out = None
    /\ Len(arg.outs) < MaxOuts
    /\ path \notin Range(arg.outs)
    /\ arg' = [arg EXCEPT !.outs = Append(arg.outs, path)]
    /\ UNCHANGED <<RunVars, fs, out>>

\* The worker's call for the edge; an edge has an output.
BuildTaskDerivation ==
    /\ out = None
    /\ arg.outs # <<>>
    /\ out' = build_task_derivation(arg.env_vars, arg.outs)
    /\ UNCHANGED <<RunVars, fs, arg>>

NextDrv ==
    \/ \E env_vars \in HostEnvs : SetEnv(env_vars)
    \/ \E path \in OutPaths : AddOut(path)
    \/ BuildTaskDerivation

SpecDrv == InitDrv /\ [][NextDrv]_vars

\* C24: the derivation declares exactly one content-addressed output (sha256,
\* nar, no literal hash) per output file of the edge: distinct output paths
\* give distinct output names, so there are as many derivation outputs as
\* edge outputs and as entries of NIX_NINJA_OUTPUTS.
C24_OneOutputPerFile ==
    "ok" \in DOMAIN out =>
        /\ Cardinality(DOMAIN out.ok.outputs) = Len(arg.outs)
        /\ Len(out.ok.env[Key.NIX_NINJA_OUTPUTS]) = Len(arg.outs)
        /\ \A n \in DOMAIN out.ok.outputs :
              out.ok.outputs[n] =
                  [hash_algo |-> "sha256", method |-> "nar", hash |-> None]

\* The statement of C26 about the derivation in `out`, when two hosts are
\* taken to agree if they agree on the allow-listed variables and on the
\* variables `also`: every variable of the env is a synthesized one or an
\* allow-listed variable of the host with the host's value; every host that
\* agrees with this one gives the same result; the synthesized variables hold
\* the synthesized values whatever the host binds to their names.
EnvOnlyFrom(also) ==
    LET allowed(k) ==
            \/ k \in {Key.NIX_LDFLAGS, Key.NIX_CFLAGS_COMPILE}
            \/ Len(k) >= 14 /\ SubSeq(k, 1, 14) = Key.NIX_CC_WRAPPER
        synthesized == {Key.NIX_NINJA_INPUTS, Key.NIX_NINJA_OUTPUTS, Key.PATH}
        host == arg.env_vars
        agree(other) ==
            \A k \in DOMAIN host \cup DOMAIN other :
                (allowed(k) \/ k \in also) =>
                    /\ k \in DOMAIN host /\ k \in DOMAIN other
                    /\ host[k] = other[k]
    IN "ok" \in DOMAIN out =>
        /\ \A k \in DOMAIN out.ok.env :
              \/ k \in synthesized
              \/ k \in DOMAIN host /\ allowed(k) /\ out.ok.env[k] = host[k]
        /\ \A k \in DOMAIN host : allowed(k) => k \in DOMAIN out.ok.env
        /\ \A other \in HostEnvs :
              agree(other) => build_task_derivation(other, arg.outs) = out
        /\ synthesized \subseteq DOMAIN out.ok.env
        /\ out.ok.env[Key.NIX_NINJA_INPUTS] = <<>>
        /\ Len(out.ok.env[Key.NIX_NINJA_OUTPUTS]) = Len(arg.outs)
        /\ Len(out.ok.env[Key.PATH]) = 2

MaxInputs == 2

\* The source paths of the encoded files the helper is given, relative to the
\* build directory: a file in it and two files of a directory below it.
TaskSources == {<<"a">>, <<"d", "a">>, <<"d", "b">>}

\* Path::parent of a relative path; the empty path is the build directory.
parent(path) == SubSeq(path, 1, Len(path) - 1)

\* The helper ends: std::process::exit(code), or main returns Err, which
\* ends the process with code 1, or Ok, which ends it with code 0.
exit(st, code) == [st EXCEPT !.pc = "exited", !.exit = [code |-> code]]

\* spawn_process if it reported success whatever the command did.
spawn_process_zero(status) == [ok |-> 0]

\* spawn_process: the exit code of the command; 1 for a command ended by a
\* signal; Err when /bin/sh could not be run.
spawn_process(status) ==
    IF "err" \in DOMAIN status THEN status
    ELSE [ok |-> IF "code" \in DOMAIN status THEN status.code ELSE 1]

InitTask ==
    /\ RunInit
    /\ fs = HostFs
    /\ arg = [inputs |-> <<>>, outputs |-> <<>>]
    /\ out = None

\* One more encoded file in NIX_NINJA_INPUTS or NIX_NINJA_OUTPUTS.
AddEncoded(field, source) ==
    /\ out = None
    /\ arg' = IF field = "inputs"
              THEN [arg EXCEPT !.inputs = Append(arg.inputs, source)]
              ELSE [arg EXCEPT !.outputs = Append(arg.outputs, source)]
    /\ Len(arg'.inputs) <= MaxInputs
    /\ Len(arg'.outputs) <= MaxOuts
    /\ UNCHANGED <<RunVars, fs, out>>

\* main up to create_symlinks: the build directory is created and entered,
\* the encoded files are parsed.  `ok` is whether the host lets the
\* directory be made.
Main(ok) ==
    /\ out = None
    /\ LET st == [pc |-> "create_symlinks", i |-> 1, links |-> {},
                  dirs |-> {<<>>}, copied |-> <<>>, status |-> None,
                  exit |-> None]
       IN out' = IF ok THEN st ELSE exit([st EXCEPT !.dirs = {}], 1)
    /\ UNCHANGED <<RunVars, fs, arg>>

\* One turn of the loop of create_symlinks, or its end.  symlink fails where
\* a file exists already.
CreateSymlink(ok) ==
    /\ out # None
    /\ out.pc = "create_symlinks"
    /\ out' = IF out.i > Len(arg.inputs)
              THEN [out EXCEPT !.pc = "create_parent_dirs"]
              ELSE LET dest_path == arg.inputs[out.i]
                   IN IF ok /\ dest_path \notin out.links
                      THEN [out EXCEPT
                               !.dirs = @ \cup {parent(dest_path)},
                               !.links = @ \cup {dest_path},
                               !.i = @ + 1]
                      ELSE exit(out, 1)
    /\ UNCHANGED <<RunVars, fs, arg>>

\* create_parent_dirs
CreateParentDirs(ok) ==
    /\ out # None
    /\ out.pc = "create_parent_dirs"
    /\ out' = IF ok
              THEN [out EXCEPT
                       !.dirs = @ \cup {parent(arg.outputs[i]) :
                                           i \in DOMAIN arg.outputs},
                       !.pc = "spawn_process"]
              ELSE exit(out, 1)
    /\ UNCHANGED <<RunVars, fs, arg>>

\* The command runs and ends with `status`: an exit code, a signal, or
\* /bin/sh not started; main ends on a code other than 0.
SpawnProcess(status) ==
    /\ out # None
    /\ out.pc = "spawn_process"
    /\ LET exit_code == spawn_process(status)
           st == [out EXCEPT !.status = status]
       IN out' = IF "err" \in DOMAIN exit_code THEN exit(st, 1)
                 ELSE IF exit_code.ok # 0 THEN exit(st, exit_code.ok)
                 ELSE [st EXCEPT !.pc = "copy", !.i = 1]
    /\ UNCHANGED <<RunVars, fs, arg>>

\* One turn of the loop over outputs, or main's Ok(()).  `ok` is whether
\* fs::copy succeeds: the command left the file.
CopyOutput(ok) ==
    /\ out # None
    /\ out.pc = "copy"
    /\ out' = IF out.i > Len(arg.outputs) THEN exit(out, 0)
              ELSE IF ok
              THEN [out EXCEPT !.copied = Append(@, arg.outputs[out.i]),
                               !.i = @ + 1]
              ELSE exit(out, 1)
    /\ UNCHANGED <<RunVars, fs, arg>>

NextTask ==
    \/ \E field \in {"inputs", "outputs"} :
          \E source \in TaskSources : AddEncoded(field, source)
    \/ \E ok \in BOOLEAN : Main(ok)
    \/ \E ok \in BOOLEAN : CreateSymlink(ok)
    \/ \E ok \in BOOLEAN : CreateParentDirs(ok)
    \/ \E status \in {[code |-> 0], [code |-> 1], [code |-> 2],
                      [signal |-> 9], [err |-> "spawn"]} :
          SpawnProcess(status)
    \/ \E ok \in BOOLEAN : CopyOutput(ok)

SpecTask == InitTask /\ [][NextTask]_vars

\* C21: when the command exits with a code other than 0 the helper exits with
\* that code and has copied no output; an output is copied only after the
\* command exited with code 0, and after every input symlink and the parent
\* directory of every output were created.
C21_CopyOnlyAfterSuccess ==
    out # None =>
        /\ ("code" \in DOMAIN out.status /\ out.status.code # 0) =>
              /\ out.pc = "exited"
              /\ out.exit = [code |-> out.status.code]
              /\ out.copied = <<>>
        /\ out.copied # <<>> =>
              /\ out.status = [code |-> 0]
              /\ \A i \in DOMAIN arg.inputs : arg.inputs[i] \in out.links
              /\ \A i \in DOMAIN arg.outputs :
                    SubSeq(arg.outputs[i], 1, Len(arg.outputs[i]) - 1)
                        \in out.dirs

\* C21 witness: the helper of two inputs and two outputs, one of them in a
\* directory, ended with code 0 and copied both outputs.
C21_Witness ==
    /\ out # None
    /\ out.pc = "exited"
    /\ out.exit = [code |-> 0]
    /\ Len(arg.inputs) = 2
    /\ Len(out.copied) = 2
    /\ <<"d", "b">> \in Range(out.copied)

====
